---------------------------- MODULE Spec2Model ----------------------------
(***************************************************************************)
(* cargo-l1x: the build pipeline (src/src/build.rs) and the tool locator   *)
(* (src/src/build.rs, src/src/which.rs).                                   *)
(*                                                                         *)
(* File contents are sequences of text chunks.  The chunks are chosen so   *)
(* that the two patterns fix_version_file looks for are sequences of       *)
(* several chunks: the replacement is computed by a real substring search, *)
(* and the two patterns share their tail (_memory") as in the source.      *)
(***************************************************************************)
EXTENDS Integers, Sequences, FiniteSets, TLC

VARIABLES
    env,        \* the host: LLVM_BIN_PATH, the files below it and their LLVM
                \* version, PATH, what `<tool> --version` does
    fs,         \* files of <target>/l1x/release: file name |-> content
    bin_dir,    \* TRUE when <target>/l1x/release exists
    pc,         \* position of the running build() call
    no_strip,   \* build(): let mut no_strip
    lines,      \* build(): the lines of the second cargo run still to be read
    path,       \* build_ebpf(): the path argument (ll_file_path of the module)
    result,     \* what build() returned
    trace,      \* the stages build_ebpf() has run for the current module
    attempted,  \* the .wasm artifacts whose translation was started in this build
    runs,       \* number of build() calls started
    args,       \* build(): the args parameter (main(): the arguments after `build`)
    cargo_calls, \* the cargo commands this build() call has run
    tool_calls, \* the tool resolutions and tool runs of this build() call
    previous,   \* the stage failure an earlier build() call returned, where the
                \* caller keeps it
    from_template, \* create(): the from_template parameter
    destination,   \* create(): what is at destination_path
    fetched,    \* the HTTP requests create() has sent
    archive,    \* create(): let mut archive
    temp_file,  \* the file of the unit test harness (tests::test_fix_version_file)
    applied,    \* the calls made on temp_file: the function, its result, the content before
    resolved    \* the values returned by get_llc_command / get_llvm_command

vars == <<env, fs, bin_dir, pc, no_strip, lines, path, result, trace,
          attempted, runs, args, cargo_calls, tool_calls, previous,
          from_template, destination, fetched, archive,
          temp_file, applied, resolved>>

buildVars == <<fs, bin_dir, pc, no_strip, lines, path, result, trace, attempted, runs,
               args, cargo_calls, tool_calls, previous>>
pipelineVars == <<fs, bin_dir, no_strip, lines, path, trace, attempted,
                  args, cargo_calls, tool_calls, previous>>
createVars == <<from_template, destination, fetched, archive>>
testVars  == <<temp_file, applied>>

---------------------------------------------------------------------------
(* Bounds *)

MaxLen      == 4    \* chunks in the initial content of temp_file
MaxOps      == 2    \* calls made on temp_file
MaxLines    == 2    \* messages printed by the second cargo run
MaxRuns     == 2    \* successive build() calls on the same target directory
MaxPathDirs == 2    \* directories listed in PATH
MaxWritten  == 1    \* chunks a failed write_all has written before it fails
MaxArgs     == 2    \* arguments after `cargo l1x build`

---------------------------------------------------------------------------
(* Program constants *)

OBJECT_FILE_VERSION      == 1
EXPECTED_RUNTIME_VERSION == 3

---------------------------------------------------------------------------
(* Text chunks of an IR file *)

SEC   == "section \""
COMMA == ","
INIT  == "_init"
MEM   == "_memory\""
TEXT  == "@g = global i32 0\n"

Chunks == {SEC, COMMA, INIT, MEM, TEXT}

\* the lines written by the two writeln! calls of add_version_info
object_version_line ==
    "@_OBJECT_VERSION = global i64 " \o ToString(OBJECT_FILE_VERSION)
        \o ", section \"_version\", align 1\n"

expected_runtime_version_line ==
    "@_EXPECTED_RUNTIME_VERSION = global i64 " \o ToString(EXPECTED_RUNTIME_VERSION)
        \o ", section \"_version\", align 1\n"

\* the substitution table of fix_version_file
memory_from      == <<SEC, COMMA, MEM>>
memory_to        == <<SEC, MEM>>
init_memory_from == <<SEC, COMMA, INIT, MEM>>
init_memory_to   == <<SEC, INIT, MEM>>

\* str::replace: every non-overlapping match, found left to right
RECURSIVE replace(_, _, _)
replace(s, from, to) ==
    IF Len(s) < Len(from) THEN s
    ELSE IF SubSeq(s, 1, Len(from)) = from
         THEN to \o replace(SubSeq(s, Len(from) + 1, Len(s)), from, to)
         ELSE <<Head(s)>> \o replace(Tail(s), from, to)

\* str::contains
contains(s, pat) ==
    \E i \in 1..(Len(s) - Len(pat) + 1) : SubSeq(s, i, i + Len(pat) - 1) = pat

RECURSIVE SeqsUpTo(_, _)
SeqsUpTo(S, n) ==
    IF n = 0 THEN {<<>>}
    ELSE LET shorter == SeqsUpTo(S, n - 1)
         IN  shorter \cup {Append(s, x) : s \in {t \in shorter : Len(t) = n - 1}, x \in S}

---------------------------------------------------------------------------
(* Results *)

Ok == [kind |-> "Ok", ctx |-> ""]
Running == [kind |-> "Running", ctx |-> ""]
Err(kind, ctx) == [kind |-> kind, ctx |-> ctx]

---------------------------------------------------------------------------
(* add_version_info and fix_version_file, as functions of the file content *)
(* and of the outcome of each fallible call they make                      *)

AddOutcomes == {"ok", "open_fails", "first_write_fails", "second_write_fails"}

\* as add_version_info, but the file is opened with truncate instead of append
add_version_info_truncating(content, outcome) ==
    IF outcome = "open_fails"
    THEN [content |-> content,
          result  |-> Err("IoError", "Failed to open versioned file")]
    ELSE IF outcome = "first_write_fails"
    THEN [content |-> <<>>,
          result  |-> Err("IoError", "Failed to write version info")]
    ELSE IF outcome = "second_write_fails"
    THEN [content |-> <<object_version_line>>,
          result  |-> Err("IoError", "Failed to write version info")]
    ELSE [content |-> <<object_version_line, expected_runtime_version_line>>,
          result  |-> Ok]

add_version_info(content, outcome) ==
    CASE outcome = "open_fails" ->
            [content |-> content,
             result  |-> Err("IoError", "Failed to open versioned file")]
      [] outcome = "first_write_fails" ->
            [content |-> content,
             result  |-> Err("IoError", "Failed to write version info")]
      [] outcome = "second_write_fails" ->
            [content |-> Append(content, object_version_line),
             result  |-> Err("IoError", "Failed to write version info")]
      [] OTHER ->
            [content |-> Append(Append(content, object_version_line),
                                expected_runtime_version_line),
             result  |-> Ok]

\* as fix_content, but the patterns leave out the leading `section "`
fix_content_short_pattern(content) ==
    replace(replace(content, <<COMMA, MEM>>, <<MEM>>),
            <<COMMA, INIT, MEM>>, <<INIT, MEM>>)

\* as fix_content, but without the second table entry
fix_content_memory_only(content) ==
    replace(content, memory_from, memory_to)

\* as fix_content, but the results of replace are dropped
fix_content_dropped(content) == content

\* the two content.replace calls of fix_version_file
fix_content(content) ==
    replace(replace(content, memory_from, memory_to),
            init_memory_from, init_memory_to)

FixOutcomes == {"ok", "read_fails", "open_fails", "write_fails"}

\* The file is opened with truncate(true) before write_all: when write_all
\* fails, the file holds the part of the new content written so far.
fix_version_file(content, outcome, written) ==
    CASE outcome = "read_fails" ->
            [content |-> content,
             result  |-> Err("IoError", "Failed to read version file")]
      [] outcome = "open_fails" ->
            [content |-> content,
             result  |-> Err("IoError", "Failed to open version file")]
      [] outcome = "write_fails" ->
            [content |-> SubSeq(fix_content(content), 1, written),
             result  |-> Err("IoError", "Failed to write to version file")]
      [] OTHER ->
            [content |-> fix_content(content), result |-> Ok]

\* how much of the new content a failed write_all can leave behind
Written(content, outcome) ==
    IF outcome = "write_fails"
    THEN {n \in 0..MaxWritten : n < Len(fix_content(content))}
    ELSE {0}

---------------------------------------------------------------------------
(* Paths.  A file name is the sequence of its dot-separated parts;        *)
(* a cargo artifact is a file name in a directory.                         *)

\* Path::extension: the part after the last dot, None ("") without a dot
\* as extension, but every file counts as a wasm file
extension_any(name) == "wasm"

extension(name) == IF Len(name) > 1 THEN name[Len(name)] ELSE ""

\* Path::with_extension: replaces the extension, or adds one
with_extension(name, ext) ==
    IF Len(name) > 1 THEN SubSeq(name, 1, Len(name) - 1) \o ext ELSE name \o ext

\* build(): bin_dir.join(wasm_file_path.with_extension("ll").file_name())
ll_file_path(wasm_file_path) == with_extension(wasm_file_path.name, <<"ll">>)

\* build_ebpf(): the three paths derived from the path argument
source_file(p)    == p
\* as versioned_file, but the extension is replaced by itself
versioned_file_in_place(p) == with_extension(p, <<"ll">>)

versioned_file(p) == with_extension(p, <<"versioned", "ll">>)
target_file(p)    == with_extension(p, <<"o">>)

Write(f, p, content) == (p :> content) @@ f

---------------------------------------------------------------------------
(* The tool locator: which() and get_llc_command / get_llvm_command        *)

None == 0

\* fs::metadata(path) is a file with an executable bit: a directory of PATH
\* is the set of the names of its executable files
is_executable(dir, program) == program \in dir

\* the program names asked for are relative, so this finds nothing
try_which_from_path(program) == None

RECURSIVE split_paths_search(_, _, _)
split_paths_search(program, paths, i) ==
    IF i > Len(paths) THEN None
    ELSE IF is_executable(paths[i], program) THEN i
    ELSE split_paths_search(program, paths, i + 1)

\* which(): the index of the first PATH directory that has the program
which(program, e) ==
    IF try_which_from_path(program) # None
    THEN try_which_from_path(program)
    ELSE split_paths_search(program, e.PATH, 1)

is_some(x) == x # None

Resolution(res, cmd, probes, queried) ==
    [result |-> res, cmd |-> cmd, probes |-> probes, queried |-> queried]

version_17 == <<"version ", "17", ".">>
version_18 == <<"version ", "18", ".">>
\* as version_19, but for the next major version
version_20 == <<"version ", "20", ".">>

version_19 == <<"version ", "19", ".">>

\* as get_llc_command, but the suffixed names are tried newest first
get_llc_command_newest_first(e) ==
    IF e.LLVM_BIN_PATH /\ "llc" \in e.override_files
    THEN Resolution(Ok, "$LLVM_BIN_PATH/llc", <<>>, FALSE)
    ELSE IF is_some(which("llc-19", e))
    THEN Resolution(Ok, "llc-19", <<"llc-19">>, FALSE)
    ELSE IF is_some(which("llc-18", e))
    THEN Resolution(Ok, "llc-18", <<"llc-19", "llc-18">>, FALSE)
    ELSE IF is_some(which("llc-17", e))
    THEN Resolution(Ok, "llc-17", <<"llc-19", "llc-18", "llc-17">>, FALSE)
    ELSE IF is_some(which("llc", e))
    THEN IF /\ e.version["llc"].spawned
            /\ \/ contains(e.version["llc"].stdout, version_17)
               \/ contains(e.version["llc"].stdout, version_18)
               \/ contains(e.version["llc"].stdout, version_19)
         THEN Resolution(Ok, "llc", <<"llc-19", "llc-18", "llc-17", "llc">>, TRUE)
         ELSE Resolution(Err("LlcRunError", ""), "",
                         <<"llc-19", "llc-18", "llc-17", "llc">>, TRUE)
    ELSE Resolution(Err("LlcRunError", ""), "",
                    <<"llc-19", "llc-18", "llc-17", "llc">>, FALSE)

\* probes: the names handed to which(), in order; queried: --version was run
get_llc_command(e) ==
    IF e.LLVM_BIN_PATH /\ "llc" \in e.override_files
    THEN Resolution(Ok, "$LLVM_BIN_PATH/llc", <<>>, FALSE)
    ELSE IF is_some(which("llc-17", e))
    THEN Resolution(Ok, "llc-17", <<"llc-17">>, FALSE)
    ELSE IF is_some(which("llc-18", e))
    THEN Resolution(Ok, "llc-18", <<"llc-17", "llc-18">>, FALSE)
    ELSE IF is_some(which("llc-19", e))
    THEN Resolution(Ok, "llc-19", <<"llc-17", "llc-18", "llc-19">>, FALSE)
    ELSE IF is_some(which("llc", e))
    THEN LET output == e.version["llc"]
             probes == <<"llc-17", "llc-18", "llc-19", "llc">>
         IN  IF output.spawned
             THEN IF \/ contains(output.stdout, version_17)
                     \/ contains(output.stdout, version_18)
                     \/ contains(output.stdout, version_19)
                  THEN Resolution(Ok, "llc", probes, TRUE)
                  ELSE Resolution(Err("LlcRunError", ""), "", probes, TRUE)
             ELSE Resolution(Err("LlcRunError", ""), "", probes, TRUE)
    ELSE Resolution(Err("LlcRunError", ""), "",
                    <<"llc-17", "llc-18", "llc-19", "llc">>, FALSE)

\* as get_llvm_command, but the bare name is returned without the version query
get_llvm_command_unchecked(e) ==
    IF e.LLVM_BIN_PATH /\ "llvm-strip" \in e.override_files
    THEN Resolution(Ok, "$LLVM_BIN_PATH/llvm-strip", <<>>, FALSE)
    ELSE IF is_some(which("llvm-strip-17", e))
    THEN Resolution(Ok, "llvm-strip-17", <<"llvm-strip-17">>, FALSE)
    ELSE IF is_some(which("llvm-strip-18", e))
    THEN Resolution(Ok, "llvm-strip-18", <<"llvm-strip-17", "llvm-strip-18">>, FALSE)
    ELSE IF is_some(which("llvm-strip-19", e))
    THEN Resolution(Ok, "llvm-strip-19",
                    <<"llvm-strip-17", "llvm-strip-18", "llvm-strip-19">>, FALSE)
    ELSE IF is_some(which("llvm-strip", e))
    THEN Resolution(Ok, "llvm-strip",
                    <<"llvm-strip-17", "llvm-strip-18", "llvm-strip-19", "llvm-strip">>,
                    FALSE)
    ELSE Resolution(Err("LlvmStripRunError", ""), "",
                    <<"llvm-strip-17", "llvm-strip-18", "llvm-strip-19", "llvm-strip">>,
                    FALSE)

get_llvm_command(e) ==
    IF e.LLVM_BIN_PATH /\ "llvm-strip" \in e.override_files
    THEN Resolution(Ok, "$LLVM_BIN_PATH/llvm-strip", <<>>, FALSE)
    ELSE IF is_some(which("llvm-strip-17", e))
    THEN Resolution(Ok, "llvm-strip-17", <<"llvm-strip-17">>, FALSE)
    ELSE IF is_some(which("llvm-strip-18", e))
    THEN Resolution(Ok, "llvm-strip-18", <<"llvm-strip-17", "llvm-strip-18">>, FALSE)
    ELSE IF is_some(which("llvm-strip-19", e))
    THEN Resolution(Ok, "llvm-strip-19",
                    <<"llvm-strip-17", "llvm-strip-18", "llvm-strip-19">>, FALSE)
    ELSE IF is_some(which("llvm-strip", e))
    THEN LET output == e.version["llvm-strip"]
             probes == <<"llvm-strip-17", "llvm-strip-18", "llvm-strip-19", "llvm-strip">>
         IN  IF output.spawned
             THEN IF \/ contains(output.stdout, version_17)
                     \/ contains(output.stdout, version_18)
                     \/ contains(output.stdout, version_19)
                  THEN Resolution(Ok, "llvm-strip", probes, TRUE)
                  ELSE Resolution(Err("LlvmStripRunError", ""), "", probes, TRUE)
             ELSE Resolution(Err("LlvmStripRunError", ""), "", probes, TRUE)
    ELSE Resolution(Err("LlvmStripRunError", ""), "",
                    <<"llvm-strip-17", "llvm-strip-18", "llvm-strip-19", "llvm-strip">>,
                    FALSE)

---------------------------------------------------------------------------
(* Hosts *)

Tools == {"llc", "llvm-strip"}

Candidates(tool) ==
    {tool \o "-17", tool \o "-18", tool \o "-19", tool}

\* what `<tool> --version` does: it cannot be started, or it prints something
VersionBanner(major) == <<"LLVM ", "version ", major, ".", "0.6\n">>

VersionRuns ==
    {[spawned |-> FALSE, stdout |-> <<>>], [spawned |-> TRUE, stdout |-> <<>>]}
        \cup {[spawned |-> TRUE, stdout |-> VersionBanner(m)] :
                 m \in {"16", "17", "18", "19", "20"}}

\* the LLVM major version of the files of a directory named by LLVM_BIN_PATH
OverrideMajors(files) == IF files = {} THEN {""} ELSE {"16", "18"}

\* a host on which only the files of one tool are present
Host(tool, override, files, major, paths, run) ==
    [LLVM_BIN_PATH  |-> override,
     override_files |-> files,
     override_major |-> major,
     PATH           |-> paths,
     version        |-> [t \in Tools |-> IF t = tool THEN run
                                         ELSE [spawned |-> FALSE, stdout |-> <<>>]]]

PathDirs(tool) == SeqsUpTo(SUBSET Candidates(tool), MaxPathDirs)

NoResolution == [tool |-> "", value |-> Resolution(Running, "", <<>>, FALSE)]

---------------------------------------------------------------------------
(* What the collaborators of build() can produce *)

\* hosts the pipeline is run on
NoVersionRun == [spawned |-> FALSE, stdout |-> <<>>]

HostVersioned ==
    [LLVM_BIN_PATH |-> FALSE, override_files |-> {}, override_major |-> "",
     PATH |-> <<{"llc-17", "llvm-strip-18"}>>,
     version |-> [t \in Tools |-> NoVersionRun]]

HostNoStripTool ==
    [LLVM_BIN_PATH |-> TRUE, override_files |-> {"llc"}, override_major |-> "18",
     PATH |-> <<{}>>,
     version |-> [t \in Tools |-> NoVersionRun]]

HostOldLlc ==
    [LLVM_BIN_PATH |-> FALSE, override_files |-> {}, override_major |-> "",
     PATH |-> <<{"llc", "llvm-strip"}>>,
     version |-> [t \in Tools |->
                    [spawned |-> TRUE,
                     stdout |-> VersionBanner(IF t = "llc" THEN "16" ELSE "19")]]]

\* llc by a suffixed name; a bare llvm-strip of an unsupported version
HostOldStrip ==
    [LLVM_BIN_PATH |-> FALSE, override_files |-> {}, override_major |-> "",
     PATH |-> <<{"llc-19"}, {"llvm-strip"}>>,
     version |-> [t \in Tools |->
                    IF t = "llc" THEN NoVersionRun
                    ELSE [spawned |-> TRUE, stdout |-> VersionBanner("20")]]]

\* a bare llc whose --version prints nothing
HostSilentLlc ==
    [LLVM_BIN_PATH |-> TRUE, override_files |-> {"llvm-strip"}, override_major |-> "18",
     PATH |-> <<{"llc"}>>,
     version |-> [t \in Tools |->
                    IF t = "llc" THEN [spawned |-> TRUE, stdout |-> <<>>]
                    ELSE NoVersionRun]]

BuildHosts == {HostVersioned, HostNoStripTool, HostOldLlc, HostOldStrip, HostSilentLlc}

\* IR files the translator writes: as on Linux, and as on macOS (with the
\* comma before the section names)
IrLinux == <<TEXT, SEC, INIT, MEM, SEC, MEM>>
IrMacos == <<TEXT, SEC, COMMA, INIT, MEM, SEC, COMMA, MEM>>

TranslatorOutputs == {IrLinux, IrMacos}

\* messages of `cargo build --message-format json`: the modules of two
\* library targets, of an example target named as the first library
\* (built with --examples), a library that is no module, and the last line
Artifact(dir, name) ==
    [reason |-> "compiler-artifact", filenames |-> <<[dir |-> dir, name |-> name]>>]

Messages ==
    {Artifact("release", <<"a", "wasm">>),
     Artifact("release", <<"b", "wasm">>),
     Artifact("release/examples", <<"a", "wasm">>),
     Artifact("release", <<"libc", "rlib">>),
     [reason |-> "build-finished", filenames |-> <<>>]}

\* cargo prints an artifact after the artifacts it depends on (the example
\* after its library) and build-finished last
CargoOrder ==
    <<Artifact("release", <<"libc", "rlib">>),
      Artifact("release", <<"a", "wasm">>),
      Artifact("release", <<"b", "wasm">>),
      Artifact("release/examples", <<"a", "wasm">>),
      [reason |-> "build-finished", filenames |-> <<>>]>>

Position(m) == CHOOSE k \in 1..Len(CargoOrder) : CargoOrder[k] = m

InOrder(s) == \A i, j \in 1..Len(s) : i < j => Position(s[i]) < Position(s[j])

\* the stdout of the second run: its exit status is not looked at, so any
\* part of the messages can be there
CargoOutputs == {s \in SeqsUpTo(Messages, MaxLines) : InOrder(s)}

\* the object file llc writes for an IR file, and what llvm-strip -x leaves
SYMTAB == ".symtab"
llc_output(ir) == <<"ELF">> \o ir \o <<SYMTAB>>
strip_output(obj) == SelectSeq(obj, LAMBDA c : c # SYMTAB)

---------------------------------------------------------------------------
(* Arguments.  An argument is the sequence of its text chunks, so that    *)
(* starts_with is a real prefix test: --target-dir is <<"--target", "-dir">> *)

NO_STRIP == <<"--no-strip">>
RELEASE  == <<"--release">>

\* Vec::contains: an element equal to x
args_contains(a, x) == \E i \in 1..Len(a) : a[i] = x

\* as cargo_command, but --release is added whatever the arguments are
cargo_command_always_release(a) ==
    LET filtered == IF args_contains(a, NO_STRIP)
                    THEN SelectSeq(a, LAMBDA x : x # NO_STRIP)
                    ELSE a
    IN  [RUSTFLAGS |-> IF args_contains(a, NO_STRIP) THEN "" ELSE "-C link-arg=-s",
         args |-> <<<<"build">>, <<"--target">>, <<"wasm32-unknown-unknown">>>>
                      \o filtered \o <<RELEASE>>]

\* as cargo_command, but RUSTFLAGS is set whatever the arguments are
cargo_command_always_hint(a) ==
    LET filtered == SelectSeq(a, LAMBDA x : x # NO_STRIP)
    IN  [RUSTFLAGS |-> "-C link-arg=-s",
         args |-> <<<<"build">>, <<"--target">>, <<"wasm32-unknown-unknown">>>>
                      \o filtered
                      \o (IF args_contains(filtered, RELEASE) THEN <<>> ELSE <<RELEASE>>)]

\* build(): the cargo command of the first run: the RUSTFLAGS it sets in the
\* environment of cargo ("" when it sets none) and the arguments
cargo_command(a) ==
    LET filtered == IF args_contains(a, NO_STRIP)
                    THEN SelectSeq(a, LAMBDA x : x # NO_STRIP)
                    ELSE a
    IN  [RUSTFLAGS |-> IF args_contains(a, NO_STRIP) THEN "" ELSE "-C link-arg=-s",
         args |-> <<<<"build">>, <<"--target">>, <<"wasm32-unknown-unknown">>>>
                      \o filtered
                      \o (IF args_contains(filtered, RELEASE) THEN <<>> ELSE <<RELEASE>>)]

\* build(): the same command with --message-format json added
cargo_json_command(a) ==
    [cargo_command(a) EXCEPT !.args = @ \o <<<<"--message-format">>, <<"json">>>>]

\* a cargo run: the command, and whether the process could be started
CargoCall(command, spawned) == [command |-> command, spawned |-> spawned]

\* the argument lists build() is given in the pipeline runs
BuildArgs == {<<>>, <<NO_STRIP>>}

\* a call of get_llc_command / get_llvm_command made for the module file
Resolve(tool, r, file) ==
    [call |-> "resolve", tool |-> tool, cmd |-> r.cmd, file |-> file, spawned |-> FALSE]

\* Command::new(cmd)...output() made for the module file
Run(tool, cmd, file, spawned) ==
    [call |-> "run", tool |-> tool, cmd |-> cmd, file |-> file, spawned |-> spawned]

\* no file and no directory at the path
NoDestination == [exists |-> FALSE, dirs |-> {}, files |-> {}]

\* what the caller has kept of an earlier build(): nothing yet, or nothing ever
\* as stage_calls, but a command resolved for an earlier module of this
\* build() call is used again without a new resolution
stage_calls_cached(calls, tool, command, file, outcome) ==
    calls
      \o (IF \E i \in 1..Len(calls) : calls[i].call = "resolve" /\ calls[i].tool = tool
          THEN <<>> ELSE <<Resolve(tool, command, file)>>)
      \o (IF command.result = Ok
          THEN <<Run(tool, command.cmd, file, outcome # "spawn_fails")>> ELSE <<>>)

\* compile_to_object() / strip_object_file(): the calls one call of the stage
\* adds: the resolution of its tool, then the run of the command it returned
stage_calls(calls, tool, command, file, outcome) ==
    calls
      \o <<Resolve(tool, command, file)>>
      \o (IF command.result = Ok
          THEN <<Run(tool, command.cmd, file, outcome # "spawn_fails")>> ELSE <<>>)

NoFailure == [stage |-> "", module |-> <<>>, error |-> Running]
Untracked == [stage |-> "untracked", module |-> <<>>, error |-> Running]

---------------------------------------------------------------------------
(* build() and build_ebpf() *)

\* as build_ebpf_next, but fix_version_file is called before add_version_info
build_ebpf_next_patch_first(stage, ns) ==
    CASE stage = "copy"              -> "fix_version_file"
      [] stage = "fix_version_file"  -> "add_version_info"
      [] stage = "add_version_info"  -> "compile_to_object"
      [] stage = "compile_to_object" -> IF ns THEN "loop" ELSE "strip_object_file"
      [] stage = "strip_object_file" -> "loop"

\* as build_ebpf_next, but compile_to_object is left out
build_ebpf_next_no_compile(stage, ns) ==
    CASE stage = "copy"              -> "add_version_info"
      [] stage = "add_version_info"  -> "fix_version_file"
      [] stage = "fix_version_file"  -> "loop"
      [] stage = "compile_to_object" -> "loop"
      [] stage = "strip_object_file" -> "loop"

\* as build_ebpf_next, but strip_object_file is called whatever no_strip is
build_ebpf_next_always_strip(stage, ns) ==
    CASE stage = "copy"              -> "add_version_info"
      [] stage = "add_version_info"  -> "fix_version_file"
      [] stage = "fix_version_file"  -> "compile_to_object"
      [] stage = "compile_to_object" -> "strip_object_file"
      [] stage = "strip_object_file" -> "loop"

\* build_ebpf(): the stage that follows a stage that returned Ok; "loop" is
\* the return to the caller's loop
build_ebpf_next(stage, ns) ==
    CASE stage = "copy"              -> "add_version_info"
      [] stage = "add_version_info"  -> "fix_version_file"
      [] stage = "fix_version_file"  -> "compile_to_object"
      [] stage = "compile_to_object" -> IF ns THEN "loop" ELSE "strip_object_file"
      [] stage = "strip_object_file" -> "loop"

\* as question_mark, but an Err is kept and the caller goes on
question_mark_continue(res, next) == IF res = Ok THEN next ELSE "loop"

\* as question_mark, but the result is not looked at
question_mark_ignored(res, next) == next

\* the ? operator: an Err returns from build_ebpf() and from build()
question_mark(res, next) == IF res = Ok THEN next ELSE "done"

\* a stage of build_ebpf() ends with result res
StageEnds(stage, res) ==
    /\ trace' = Append(trace, [stage |-> stage, ok |-> res = Ok])
    /\ pc' = question_mark(res, build_ebpf_next(stage, no_strip))
    /\ result' = IF res = Ok THEN result ELSE res

\* the head of build(): no_strip, the cargo command, and the first cargo
\* run: spawn, wait, status.success()
Build ==
    /\ pc = "build"
    /\ \E outcome \in {"ok", "spawn_fails", "exit_nonzero"} :
          LET res == CASE outcome = "spawn_fails"  -> Err("CargoBuildError", "")
                       [] outcome = "exit_nonzero" -> Err("WasmBuildError", "")
                       [] OTHER                    -> Ok
          IN  /\ pc' = question_mark(res, "create_dir_all")
              /\ result' = IF res = Ok THEN result ELSE res
              /\ cargo_calls' = Append(cargo_calls,
                                       CargoCall(cargo_command(args),
                                                 outcome # "spawn_fails"))
    /\ no_strip' = args_contains(args, NO_STRIP)
    /\ UNCHANGED <<env, fs, bin_dir, lines, path, trace, attempted, runs>>
    /\ UNCHANGED <<args, tool_calls, previous>>
    /\ UNCHANGED <<testVars, resolved, createVars>>

CreateDirAll ==
    /\ pc = "create_dir_all"
    /\ \E outcome \in {"ok", "fails"} :
          LET res == IF outcome = "ok" THEN Ok
                     ELSE Err("IoError", "Could not create target directory")
          IN  /\ pc' = question_mark(res, "cargo_json")
              /\ result' = IF res = Ok THEN result ELSE res
              /\ bin_dir' = (bin_dir \/ res = Ok)
    /\ UNCHANGED <<env, fs, no_strip, lines, path, trace, attempted, runs>>
    /\ UNCHANGED <<args, cargo_calls, tool_calls, previous>>
    /\ UNCHANGED <<testVars, resolved, createVars>>

\* the second cargo run: output(), then the split into lines
CargoJson ==
    /\ pc = "cargo_json"
    /\ \/ /\ pc' = "done"
          /\ result' = Err("CargoBuildError", "")
          /\ lines' = lines
          /\ cargo_calls' = Append(cargo_calls,
                                   CargoCall(cargo_json_command(args), FALSE))
       \/ /\ pc' = "loop"
          /\ result' = result
          /\ lines' \in CargoOutputs
          /\ cargo_calls' = Append(cargo_calls,
                                   CargoCall(cargo_json_command(args), TRUE))
    /\ UNCHANGED <<env, fs, bin_dir, no_strip, path, trace, attempted, runs>>
    /\ UNCHANGED <<args, tool_calls, previous>>
    /\ UNCHANGED <<testVars, resolved, createVars>>

\* one turn of `for line in lines`, up to the call of the translator
LoopLine ==
    /\ pc = "loop"
    /\ IF lines = <<>>
       THEN /\ pc' = "done"
            /\ result' = Ok
            /\ UNCHANGED <<lines, path, trace, attempted>>
       ELSE LET line == Head(lines)
            IN  /\ lines' = Tail(lines)
                /\ result' = result
                /\ IF /\ line.reason = "compiler-artifact"
                      /\ extension(line.filenames[1].name) = "wasm"
                   THEN /\ path' = ll_file_path(line.filenames[1])
                        /\ attempted' = Append(attempted, line.filenames[1])
                        /\ trace' = <<>>
                        /\ pc' = "translate"
                   ELSE /\ pc' = "loop"
                        /\ UNCHANGED <<path, trace, attempted>>
    /\ UNCHANGED <<env, fs, bin_dir, no_strip, runs>>
    /\ UNCHANGED <<args, cargo_calls, tool_calls, previous>>
    /\ UNCHANGED <<testVars, resolved, createVars>>

\* translate_module_to_file_by_path(wasm_file_path, ll_file_path)
Translate ==
    /\ pc = "translate"
    /\ \/ /\ pc' = "done"
          /\ result' = Err("LlBuildError", "")
          /\ fs' = fs
       \/ \E ir \in TranslatorOutputs :
             /\ fs' = Write(fs, path, ir)
             /\ pc' = "copy"
             /\ result' = result
    /\ UNCHANGED <<env, bin_dir, no_strip, lines, path, trace, attempted, runs>>
    /\ UNCHANGED <<args, cargo_calls, tool_calls, previous>>
    /\ UNCHANGED <<testVars, resolved, createVars>>

\* std::fs::copy(source_file, &versioned_file)
Copy ==
    /\ pc = "copy"
    /\ \E outcome \in {"ok", "fails"} :
          IF outcome = "ok"
          THEN /\ fs' = Write(fs, versioned_file(path), fs[source_file(path)])
               /\ StageEnds("copy", Ok)
          ELSE /\ fs' = fs
               /\ StageEnds("copy", Err("IoError", "Failed to copy source file"))
    /\ UNCHANGED <<env, bin_dir, no_strip, lines, path, attempted, runs>>
    /\ UNCHANGED <<args, cargo_calls, tool_calls, previous>>
    /\ UNCHANGED <<testVars, resolved, createVars>>

AddVersionInfo ==
    /\ pc = "add_version_info"
    /\ \E outcome \in AddOutcomes :
          LET r == add_version_info(fs[versioned_file(path)], outcome)
          IN  /\ fs' = Write(fs, versioned_file(path), r.content)
              /\ StageEnds("add_version_info", r.result)
    /\ UNCHANGED <<env, bin_dir, no_strip, lines, path, attempted, runs>>
    /\ UNCHANGED <<args, cargo_calls, tool_calls, previous>>
    /\ UNCHANGED <<testVars, resolved, createVars>>

FixVersionFile ==
    /\ pc = "fix_version_file"
    /\ \E outcome \in FixOutcomes :
          \E written \in Written(fs[versioned_file(path)], outcome) :
             LET r == fix_version_file(fs[versioned_file(path)], outcome, written)
             IN  /\ fs' = Write(fs, versioned_file(path), r.content)
                 /\ StageEnds("fix_version_file", r.result)
    /\ UNCHANGED <<env, bin_dir, no_strip, lines, path, attempted, runs>>
    /\ UNCHANGED <<args, cargo_calls, tool_calls, previous>>
    /\ UNCHANGED <<testVars, resolved, createVars>>

\* compile_to_object(&versioned_file, &target_file)
CompileToObject ==
    /\ pc = "compile_to_object"
    /\ LET command == get_llc_command(env)
       IN  IF command.result # Ok
           THEN /\ fs' = fs
                /\ tool_calls' = stage_calls(tool_calls, "llc", command, path, "")
                /\ StageEnds("compile_to_object", command.result)
           ELSE \E outcome \in {"ok", "spawn_fails", "exit_nonzero"} :
                /\ tool_calls' = stage_calls(tool_calls, "llc", command, path, outcome)
                /\ CASE outcome = "spawn_fails" ->
                           /\ fs' = fs
                           /\ StageEnds("compile_to_object", Err("LlcRunError", "spawn"))
                     [] outcome = "exit_nonzero" ->
                           /\ fs' = fs
                           /\ StageEnds("compile_to_object", Err("ObjectBuildError", ""))
                     [] OTHER ->
                           /\ fs' = Write(fs, target_file(path),
                                          llc_output(fs[versioned_file(path)]))
                           /\ StageEnds("compile_to_object", Ok)
    /\ UNCHANGED <<env, bin_dir, no_strip, lines, path, attempted, runs>>
    /\ UNCHANGED <<args, cargo_calls, previous>>
    /\ UNCHANGED <<testVars, resolved, createVars>>

\* strip_object_file(&target_file)
StripObjectFile ==
    /\ pc = "strip_object_file"
    /\ LET command == get_llvm_command(env)
       IN  IF command.result # Ok
           THEN /\ fs' = fs
                /\ tool_calls' = stage_calls(tool_calls, "llvm-strip", command, path, "")
                /\ StageEnds("strip_object_file", command.result)
           ELSE \E outcome \in {"ok", "spawn_fails", "exit_nonzero"} :
                /\ tool_calls' = stage_calls(tool_calls, "llvm-strip", command, path,
                                             outcome)
                /\ CASE outcome = "spawn_fails" ->
                           /\ fs' = fs
                           /\ StageEnds("strip_object_file",
                                        Err("LlvmStripRunError", "spawn"))
                     [] outcome = "exit_nonzero" ->
                           /\ fs' = fs
                           /\ StageEnds("strip_object_file", Err("LlvmStripError", ""))
                     [] OTHER ->
                           /\ fs' = Write(fs, target_file(path),
                                          strip_output(fs[target_file(path)]))
                           /\ StageEnds("strip_object_file", Ok)
    /\ UNCHANGED <<env, bin_dir, no_strip, lines, path, attempted, runs>>
    /\ UNCHANGED <<args, cargo_calls, previous>>
    /\ UNCHANGED <<testVars, resolved, createVars>>

\* build() is called again on the same target directory
Rerun ==
    /\ pc = "done"
    /\ runs < MaxRuns
    /\ runs' = runs + 1
    /\ pc' = "build"
    /\ result' = Running
    /\ args' \in BuildArgs
    /\ no_strip' = FALSE
    /\ lines' = <<>>
    /\ path' = <<>>
    /\ trace' = <<>>
    /\ attempted' = <<>>
    /\ cargo_calls' = <<>>
    /\ tool_calls' = <<>>
    /\ previous' = IF previous # Untracked /\ trace # <<>> /\ ~trace[Len(trace)].ok
                   THEN [stage  |-> trace[Len(trace)].stage,
                         module |-> attempted[Len(attempted)],
                         error  |-> result]
                   ELSE previous
    /\ UNCHANGED <<env, fs, bin_dir>>
    /\ UNCHANGED <<testVars, resolved, createVars>>

NoFiles == [p \in {} |-> <<>>]

Init ==
    /\ env \in BuildHosts
    /\ fs = NoFiles
    /\ bin_dir = FALSE
    /\ pc = "build"
    /\ args \in BuildArgs
    /\ cargo_calls = <<>>
    /\ tool_calls = <<>>
    /\ previous = Untracked
    /\ no_strip = FALSE
    /\ lines = <<>>
    /\ path = <<>>
    /\ result = Running
    /\ trace = <<>>
    /\ attempted = <<>>
    /\ runs = 1
    /\ from_template = ""
    /\ destination = NoDestination
    /\ fetched = 0
    /\ archive = <<>>
    /\ temp_file = <<>>
    /\ applied = <<>>
    /\ resolved = NoResolution

Next ==
    \/ Build
    \/ CreateDirAll
    \/ CargoJson
    \/ LoopLine
    \/ Translate
    \/ Copy
    \/ AddVersionInfo
    \/ FixVersionFile
    \/ CompileToObject
    \/ StripObjectFile
    \/ Rerun

Spec == Init /\ [][Next]_vars

\* the pipeline with a caller that keeps the failure of an earlier call
InitFailures ==
    /\ env = HostVersioned
    /\ fs = NoFiles
    /\ bin_dir = FALSE
    /\ pc = "build"
    /\ args \in BuildArgs
    /\ cargo_calls = <<>>
    /\ tool_calls = <<>>
    /\ previous = NoFailure
    /\ no_strip = FALSE
    /\ lines = <<>>
    /\ path = <<>>
    /\ result = Running
    /\ trace = <<>>
    /\ attempted = <<>>
    /\ runs = 1
    /\ from_template = ""
    /\ destination = NoDestination
    /\ fetched = 0
    /\ archive = <<>>
    /\ temp_file = <<>>
    /\ applied = <<>>
    /\ resolved = NoResolution

SpecFailures == InitFailures /\ [][Next]_vars

---------------------------------------------------------------------------
(* The two file functions on a file of any content, as the unit test calls *)
(* fix_version_file on a temporary file                                    *)

Call(fn, res, before) == [fn |-> fn, result |-> res, before |-> before]

TestAddVersionInfo ==
    /\ Len(applied) < MaxOps
    /\ \E outcome \in AddOutcomes :
          LET r == add_version_info(temp_file, outcome)
          IN  /\ temp_file' = r.content
              /\ applied' = Append(applied, Call("add_version_info", r.result, temp_file))
    /\ UNCHANGED <<env, buildVars, resolved, createVars>>

TestFixVersionFile ==
    /\ Len(applied) < MaxOps
    /\ \E outcome \in FixOutcomes :
          \E written \in Written(temp_file, outcome) :
             LET r == fix_version_file(temp_file, outcome, written)
             IN  /\ temp_file' = r.content
                 /\ applied' = Append(applied, Call("fix_version_file", r.result, temp_file))
    /\ UNCHANGED <<env, buildVars, resolved, createVars>>

InitTest ==
    /\ env = HostVersioned
    /\ fs = NoFiles
    /\ bin_dir = FALSE
    /\ pc = "test"
    /\ args = <<>>
    /\ cargo_calls = <<>>
    /\ tool_calls = <<>>
    /\ previous = NoFailure
    /\ no_strip = FALSE
    /\ lines = <<>>
    /\ path = <<>>
    /\ result = Running
    /\ trace = <<>>
    /\ attempted = <<>>
    /\ runs = 1
    /\ from_template = ""
    /\ destination = NoDestination
    /\ fetched = 0
    /\ archive = <<>>
    /\ temp_file \in SeqsUpTo(Chunks, MaxLen)
    /\ applied = <<>>
    /\ resolved = NoResolution

NextTest ==
    \/ TestAddVersionInfo
    \/ TestFixVersionFile

SpecTest == InitTest /\ [][NextTest]_vars

---------------------------------------------------------------------------
(* The tool locator on any host *)

GetLlcCommand ==
    /\ resolved' = [tool |-> "llc", value |-> get_llc_command(env)]
    /\ UNCHANGED <<env, buildVars, testVars, createVars>>

GetLlvmCommand ==
    /\ resolved' = [tool |-> "llvm-strip", value |-> get_llvm_command(env)]
    /\ UNCHANGED <<env, buildVars, testVars, createVars>>

InitTool ==
    /\ \E tool \in Tools, override \in BOOLEAN, run \in VersionRuns :
          \E files \in SUBSET {tool}, paths \in PathDirs(tool) :
             \E major \in OverrideMajors(files) :
                env = Host(tool, override, files, major, paths, run)
    /\ fs = NoFiles
    /\ bin_dir = FALSE
    /\ pc = "locate"
    /\ args = <<>>
    /\ cargo_calls = <<>>
    /\ tool_calls = <<>>
    /\ previous = NoFailure
    /\ no_strip = FALSE
    /\ lines = <<>>
    /\ path = <<>>
    /\ result = Running
    /\ trace = <<>>
    /\ attempted = <<>>
    /\ runs = 1
    /\ from_template = ""
    /\ destination = NoDestination
    /\ fetched = 0
    /\ archive = <<>>
    /\ temp_file = <<>>
    /\ applied = <<>>
    /\ resolved = NoResolution

NextTool ==
    \/ GetLlcCommand
    \/ GetLlvmCommand

SpecTool == InitTool /\ [][NextTool]_vars

---------------------------------------------------------------------------
(* main(): the build arm (src/src/main.rs)                                 *)

\* str::starts_with on arguments: the chunks of e are the first chunks of arg
starts_with(arg, e) == Len(arg) >= Len(e) /\ SubSeq(arg, 1, Len(e)) = e

\* the exclude list main() passes
Excluded ==
    <<<<"--target">>, <<"--message-format">>, <<"--version">>,
      <<"--manifest-path">>, <<"--profile">>>>

\* check_args_not_contains: the element of exclude the first offending
\* argument starts with, <<>> when there is none
RECURSIVE check_args_not_contains(_, _, _, _)
check_args_not_contains(a, exclude, i, j) ==
    IF i > Len(a) THEN <<>>
    ELSE IF j > Len(exclude) THEN check_args_not_contains(a, exclude, i + 1, 1)
    ELSE IF starts_with(a[i], exclude[j]) THEN exclude[j]
    ELSE check_args_not_contains(a, exclude, i, j + 1)

\* arguments a user can give: the five flags, alone or as --flag=value,
\* other cargo build options, the options of cargo l1x build, and a value
ArgWords ==
    {<<"--target">>, <<"--target", "=wasm32-wasi">>, <<"--target", "-dir">>,
     <<"--message-format">>, <<"--version">>, <<"--manifest-path">>,
     <<"--profile">>, <<"--profile", "=dev">>,
     <<"--release">>, <<"-r">>, <<"--features">>, <<"--examples">>,
     <<"--no-strip">>, <<"--help">>, <<"-h">>, <<"out">>}

ArgLists == SeqsUpTo(ArgWords, MaxArgs)

\* main(), "build" arm, up to the call of build()
Main ==
    /\ pc = "main"
    /\ IF args_contains(args, <<"--help">>) \/ args_contains(args, <<"-h">>)
       THEN /\ pc' = "done"
            /\ result' = Ok
       ELSE \E metadata \in {"ok", "fails"} :
               IF metadata = "fails"
               THEN /\ pc' = "done"
                    /\ result' = Err("panic", "cargo metadata failed")
               ELSE LET e == check_args_not_contains(args, Excluded, 1, 1)
                    IN  IF e # <<>>
                        THEN /\ pc' = "done"
                             /\ result' = Err("anyhow",
                                              "This argument cannot be changed: " \o e[1])
                        ELSE /\ pc' = "build"
                             /\ result' = result
    /\ UNCHANGED <<env, runs, pipelineVars, createVars, testVars, resolved>>

InitMain ==
    /\ env = HostVersioned
    /\ fs = NoFiles
    /\ bin_dir = FALSE
    /\ pc = "main"
    /\ args \in ArgLists
    /\ cargo_calls = <<>>
    /\ tool_calls = <<>>
    /\ previous = Untracked
    /\ no_strip = FALSE
    /\ lines = <<>>
    /\ path = <<>>
    /\ result = Running
    /\ trace = <<>>
    /\ attempted = <<>>
    /\ runs = 1
    /\ from_template = ""
    /\ destination = NoDestination
    /\ fetched = 0
    /\ archive = <<>>
    /\ temp_file = <<>>
    /\ applied = <<>>
    /\ resolved = NoResolution

\* main() and the first cargo run of the build() it calls
NextMain ==
    \/ Main
    \/ Build

SpecMain == InitMain /\ [][NextMain]_vars

---------------------------------------------------------------------------
(* create(): src/src/create.rs.  A path below the destination is the      *)
(* sequence of its components; a directory is the set of the directories  *)
(* and of the files below it.                                              *)

ProjectName == "my_contract"

\* Template::from_str
from_str(s) ==
    CASE s = "local_default" -> [result |-> Ok, template |-> "LocalDefault"]
      [] s = "default"       -> [result |-> Ok, template |-> "Default"]
      [] s = "ft"            -> [result |-> Ok, template |-> "Ft"]
      [] s = "nft"           -> [result |-> Ok, template |-> "Nft"]
      [] OTHER               -> [result |-> Err("UnknownTemplate", s), template |-> ""]

\* as create_check, but the destination is looked at before the template
create_check_destination_first(s, d) ==
    IF d.exists THEN Err("DirectoryAlreadyExists", ProjectName)
    ELSE from_str(s).result

\* as create_check, but an existing destination is accepted
create_check_overwriting(s, d) == from_str(s).result

\* create(): the two tests made before anything is written
create_check(s, d) ==
    IF from_str(s).result # Ok THEN from_str(s).result
    ELSE IF d.exists THEN Err("DirectoryAlreadyExists", ProjectName)
    ELSE Ok

\* values of the --template option
TemplateNames == {"local_default", "default", "ft", "nft", "bogus", ""}

\* what can be at the destination before create() is called: nothing, an
\* empty directory, a directory with files of its own
Destinations ==
    {NoDestination,
     [exists |-> TRUE, dirs |-> {}, files |-> {}],
     [exists |-> TRUE, dirs |-> {<<"src">>},
      files |-> {[path |-> <<"src", "lib.rs">>, written |-> TRUE]}]}

\* entries of a zip archive
Dir(n)  == [name |-> n, is_dir |-> TRUE]
File(n) == [name |-> n, is_dir |-> FALSE]

\* the archive build.rs packs: the folder first, then what read_dir lists
LocalArchive ==
    <<Dir(<<"default_template">>),
      File(<<"default_template", "Cargo.toml.template">>),
      Dir(<<"default_template", "src">>),
      File(<<"default_template", "src", "lib.rs">>)>>

\* archives a server can send: a branch archive, its top-level directory
\* first; and an archive whose first entry is a file
BranchArchive ==
    <<Dir(<<"cargo-l1x-templates-ft">>),
      File(<<"cargo-l1x-templates-ft", "Cargo.toml.template">>),
      File(<<"cargo-l1x-templates-ft", "src", "lib.rs">>)>>

FlatArchive ==
    <<File(<<"README.md">>),
      Dir(<<"src">>),
      File(<<"src", "lib.rs">>)>>

\* an archive with an entry that names a path above the place it is
\* unpacked to
ClimbingArchive ==
    <<Dir(<<"t">>),
      File(<<"t", "..", "..", "evil">>),
      File(<<"t", "Cargo.toml.template">>)>>

RemoteArchives == {BranchArchive, FlatArchive, ClimbingArchive}

\* as mangled_name, but the name is taken as it is in the archive
mangled_name_raw(name) == name

\* ZipFile::mangled_name: the components of the name that are plain names
\* (no root, no "." and no "..")
mangled_name(name) == SelectSeq(name, LAMBDA c : c \notin {"", ".", ".."})

\* Path::strip_prefix, the path kept when it does not start with the prefix
strip_prefix(file_path, prefix) ==
    IF Len(file_path) >= Len(prefix) /\ SubSeq(file_path, 1, Len(prefix)) = prefix
    THEN SubSeq(file_path, Len(prefix) + 1, Len(file_path))
    ELSE file_path

\* Path::exists below the destination
path_exists(d, p) ==
    \/ p = <<>> /\ d.exists
    \/ p \in d.dirs
    \/ \E f \in d.files : f.path = p

\* as create_dir_all, but nothing is created
create_dir_all_nothing(d, p) == d

\* fs::create_dir_all
create_dir_all(d, p) ==
    [d EXCEPT !.exists = TRUE,
              !.dirs = @ \cup {SubSeq(p, 1, n) : n \in 1..Len(p)}]

\* File::create, then io::copy when written
create_file(d, p, written) ==
    [d EXCEPT !.files = {f \in @ : f.path # p} \cup {[path |-> p, written |-> written]}]

\* the fallible calls of unzip(): none fails, or one call fails at one entry
NoFail == [at |-> 0, op |-> ""]

UnzipFailures(a) ==
    {NoFail} \cup
    {[at |-> i, op |-> op] :
        i \in 1..Len(a), op \in {"by_index", "create_dir_all", "File::create", "io::copy"}}

\* Template::unzip from entry i on; top is top_level_dir_name (<<>> for None,
\* <<n>> for Some(n))
RECURSIVE unzip(_, _, _, _, _)
unzip(a, i, top, d, fail) ==
    IF i > Len(a) THEN [destination |-> d, result |-> Ok]
    ELSE
    LET file      == a[i]
        fails(op) == fail.at = i /\ fail.op = op
        mangled   == mangled_name(file.name)
        file_path == IF top # <<>> THEN strip_prefix(mangled, top[1]) ELSE mangled
    IN  IF fails("by_index")
        THEN [destination |-> d, result |-> Err("ZipError", "")]
        ELSE IF file.is_dir
        THEN IF top = <<>>
             THEN unzip(a, i + 1, <<file.name>>, d, fail)
             ELSE IF fails("create_dir_all")
             THEN [destination |-> d,
                   result |-> Err("IoError", "Couldn't create a directory")]
             ELSE unzip(a, i + 1, top, create_dir_all(d, file_path), fail)
        ELSE
        LET parent == SubSeq(file_path, 1, Len(file_path) - 1)
            made   == IF path_exists(d, parent) THEN d ELSE create_dir_all(d, parent)
            out_path  == IF file_path # <<>> /\ file_path[Len(file_path)] = "Cargo.toml.template"
                      THEN Append(parent, "Cargo.toml")
                      ELSE file_path
        IN  IF ~path_exists(d, parent) /\ fails("create_dir_all")
            THEN [destination |-> d,
                  result |-> Err("IoError", "Couldn't create a directory")]
            ELSE IF fails("File::create") \/ out_path = <<>> \/ out_path \in made.dirs
            THEN [destination |-> made,
                  result |-> Err("IoError", "Couldn't create a file")]
            ELSE IF fails("io::copy")
            THEN [destination |-> create_file(made, out_path, FALSE),
                  result |-> Err("IoError", "Couldn't copy file")]
            ELSE unzip(a, i + 1, top, create_file(made, out_path, TRUE), fail)

\* create(): Template::from_str, then destination_path.exists()
CreateCheck ==
    /\ pc = "create"
    /\ LET res == create_check(from_template, destination)
       IN  /\ pc' = question_mark(res, "create_dir_all")
           /\ result' = IF res = Ok THEN result ELSE res
    /\ UNCHANGED <<env, runs, pipelineVars, createVars, testVars, resolved>>

\* create(): fs::create_dir_all(name)
CreateDestination ==
    /\ pc = "create_dir_all"
    /\ \E outcome \in {"ok", "fails"} :
          IF outcome = "ok"
          THEN /\ destination' = create_dir_all(destination, <<>>)
               /\ pc' = "get_zip_template"
               /\ result' = result
          ELSE /\ destination' = destination
               /\ pc' = "done"
               /\ result' = Err("IoError", "Couldn't create a directory")
    /\ UNCHANGED <<env, runs, pipelineVars, from_template, fetched, archive>>
    /\ UNCHANGED <<testVars, resolved>>

\* create(): template.get_zip_template()?
GetZipTemplate ==
    /\ pc = "get_zip_template"
    /\ IF from_str(from_template).template = "LocalDefault"
       THEN /\ archive' = LocalArchive
            /\ fetched' = fetched
            /\ pc' = "unzip"
            /\ result' = result
       ELSE /\ fetched' = fetched + 1
            /\ \/ /\ archive' \in RemoteArchives
                  /\ pc' = "unzip"
                  /\ result' = result
               \/ \E kind \in {"ConnectionError", "ZipError"} :
                     /\ archive' = archive
                     /\ pc' = "done"
                     /\ result' = Err(kind, "")
    /\ UNCHANGED <<env, runs, pipelineVars, from_template, destination>>
    /\ UNCHANGED <<testVars, resolved>>

\* create(): Template::unzip(&mut archive, &destination_path)?; Ok(())
Unzip ==
    /\ pc = "unzip"
    /\ \E fail \in UnzipFailures(archive) :
          LET r == unzip(archive, 1, <<>>, destination, fail)
          IN  /\ destination' = r.destination
              /\ result' = r.result
    /\ pc' = "done"
    /\ UNCHANGED <<env, runs, pipelineVars, from_template, fetched, archive>>
    /\ UNCHANGED <<testVars, resolved>>

\* create() is called again with the same name
CreateAgain ==
    /\ pc = "done"
    /\ runs < MaxRuns
    /\ runs' = runs + 1
    /\ pc' = "create"
    /\ result' = Running
    /\ archive' = <<>>
    /\ from_template' \in TemplateNames
    /\ UNCHANGED <<env, pipelineVars, destination, fetched, testVars, resolved>>

InitCreate ==
    /\ env = HostVersioned
    /\ fs = NoFiles
    /\ bin_dir = FALSE
    /\ pc = "create"
    /\ args = <<>>
    /\ cargo_calls = <<>>
    /\ tool_calls = <<>>
    /\ previous = Untracked
    /\ no_strip = FALSE
    /\ lines = <<>>
    /\ path = <<>>
    /\ result = Running
    /\ trace = <<>>
    /\ attempted = <<>>
    /\ runs = 1
    /\ from_template \in TemplateNames
    /\ destination \in Destinations
    /\ fetched = 0
    /\ archive = <<>>
    /\ temp_file = <<>>
    /\ applied = <<>>
    /\ resolved = NoResolution

NextCreate ==
    \/ CreateCheck
    \/ CreateDestination
    \/ GetZipTemplate
    \/ Unzip
    \/ CreateAgain

SpecCreate == InitCreate /\ [][NextCreate]_vars

---------------------------------------------------------------------------
(* Properties *)

Stages ==
    {"copy", "add_version_info", "fix_version_file", "compile_to_object",
     "strip_object_file"}

IsErr(r) == r.kind \notin {"Ok", "Running"}

\* the stage has returned Ok for the current module
Completed(stage) ==
    \E i \in 1..Len(trace) : trace[i].stage = stage /\ trace[i].ok

AllOk(t) == \A i \in 1..Len(t) : t[i].ok

StageOrder(ns) ==
    <<"copy", "add_version_info", "fix_version_file", "compile_to_object">>
        \o (IF ns THEN <<>> ELSE <<"strip_object_file">>)

\* C1: the stages of build_ebpf run in the order copy, version injection,
\* patch, backend compile, strip (strip only without --no-strip); a stage
\* runs only when every stage before it has returned Ok, none is skipped or
\* repeated, and build_ebpf returns Ok only after the whole list.
C1_StagesInOrder ==
    LET order == StageOrder(no_strip)
    IN  /\ Len(trace) <= Len(order)
        /\ \A i \in 1..Len(trace) :
              /\ trace[i].stage = order[i]
              /\ i < Len(trace) => trace[i].ok
        /\ pc \in Stages =>
              /\ AllOk(trace)
              /\ Len(trace) < Len(order)
              /\ pc = order[Len(trace) + 1]
        /\ (trace # <<>> /\ (pc = "loop" \/ (pc = "done" /\ result = Ok))) =>
              /\ AllOk(trace)
              /\ Len(trace) = Len(order)
        /\ (trace # <<>> /\ pc = "done" /\ IsErr(result)) =>
              ~trace[Len(trace)].ok

C1_Witness ==
    /\ pc = "loop"
    /\ ~no_strip
    /\ Len(trace) = 5
    /\ AllOk(trace)

\* the artifacts written by the stages that have completed for the module
ArtifactsOfCompletedStages ==
    {source_file(path)}
        \cup (IF Completed("copy") THEN {versioned_file(path)} ELSE {})
        \cup (IF Completed("compile_to_object") THEN {target_file(path)} ELSE {})

\* C2: when a stage of build_ebpf fails, build returns the error, no later
\* stage runs, and the raw IR, the versioned IR and the object file written
\* by the completed stages are left as they were.
C2_FailedStageKeepsArtifacts ==
    [][(pc \in Stages /\ IsErr(result')) =>
          /\ pc' = "done"
          /\ trace' = Append(trace, [stage |-> pc, ok |-> FALSE])
          /\ \A p \in ArtifactsOfCompletedStages :
                p \in DOMAIN fs' /\ fs'[p] = fs[p]]_vars

WasmLeft ==
    \E i \in 1..Len(lines) :
        /\ lines[i].reason = "compiler-artifact"
        /\ extension(lines[i].filenames[1].name) = "wasm"

\* C3 as claimed: when the pipeline of a module has failed, build returns
\* the error only after every discovered module has been processed.
C3_AllModulesAttempted ==
    (pc = "done" /\ IsErr(result) /\ attempted # <<>>) => ~WasmLeft

\* C3: when the translation or a stage of a module fails, the loop is left
\* at once: build returns that error, the remaining lines are not read, no
\* other module is started, and nothing more happens in this call.
C3_HaltsOnFirstFailure ==
    /\ [][(pc \in Stages \cup {"translate"} /\ IsErr(result')) =>
             /\ pc' = "done"
             /\ lines' = lines
             /\ attempted' = attempted]_vars
    /\ [][pc = "done" => (pc' = "build" /\ runs' = runs + 1)]_vars

C3_Witness ==
    /\ pc = "done"
    /\ IsErr(result)
    /\ attempted # <<>>
    /\ WasmLeft

LastCall == applied[Len(applied)]

\* C4: add_version_info leaves the content c as c followed by the two
\* lines @_OBJECT_VERSION (i64 1) and @_EXPECTED_RUNTIME_VERSION (i64 3), in
\* that order, both in section "_version".
C4_VersionRecordAppended ==
    (applied # <<>> /\ LastCall.fn = "add_version_info" /\ LastCall.result = Ok) =>
        temp_file = LastCall.before \o
            <<"@_OBJECT_VERSION = global i64 1, section \"_version\", align 1\n",
              "@_EXPECTED_RUNTIME_VERSION = global i64 3, section \"_version\", align 1\n">>

C4_Witness ==
    /\ applied # <<>>
    /\ LastCall.fn = "add_version_info"
    /\ LastCall.result = Ok
    /\ Len(LastCall.before) >= 3

Count(s, c) == Len(SelectSeq(s, LAMBDA x : x = c))

OneVersionRecordAtEnd(s) ==
    /\ Len(s) >= 2
    /\ s[Len(s) - 1] = object_version_line
    /\ s[Len(s)] = expected_runtime_version_line
    /\ Count(s, object_version_line) = 1
    /\ Count(s, expected_runtime_version_line) = 1

\* C5: in every state after version injection has completed for a module,
\* in a first build or in a later one on the same directory, the versioned
\* IR holds exactly one Version Record, at its end.
C5_OneVersionRecord ==
    Completed("add_version_info") =>
        /\ versioned_file(path) \in DOMAIN fs
        /\ OneVersionRecordAtEnd(fs[versioned_file(path)])

MalformedMemory     == <<"section \"", ",", "_memory\"">>
MalformedInitMemory == <<"section \"", ",", "_init", "_memory\"">>

\* C6: a second successful fix_version_file leaves the file as the first
\* one left it.
C6_FixIsIdempotent ==
    (/\ Len(applied) >= 2
     /\ LastCall.fn = "fix_version_file" /\ LastCall.result = Ok
     /\ applied[Len(applied) - 1].fn = "fix_version_file"
     /\ applied[Len(applied) - 1].result = Ok) =>
        temp_file = LastCall.before

C6_Witness ==
    /\ Len(applied) = 2
    /\ applied[1].fn = "fix_version_file" /\ applied[1].result = Ok
    /\ applied[2].fn = "fix_version_file" /\ applied[2].result = Ok
    /\ contains(applied[1].before, MalformedInitMemory)
    /\ applied[2].before # applied[1].before

MatchAt(s, i, pat) ==
    /\ i + Len(pat) - 1 <= Len(s)
    /\ SubSeq(s, i, i + Len(pat) - 1) = pat

\* the positions of the commas of the malformed tokens
MalformedCommas(s) ==
    {i + 1 : i \in {j \in 1..Len(s) : \/ MatchAt(s, j, MalformedMemory)
                                      \/ MatchAt(s, j, MalformedInitMemory)}}

RECURSIVE DropIndices(_, _, _)
DropIndices(s, D, i) ==
    IF i > Len(s) THEN <<>>
    ELSE (IF i \in D THEN <<>> ELSE <<s[i]>>) \o DropIndices(s, D, i + 1)

\* C7: fix_version_file leaves the content with the comma taken out of
\* every occurrence of section ",_memory" and of section ",_init_memory";
\* every other chunk, the Version Record lines included, stays, in order.
C7_OnlyMalformedTokensChange ==
    (applied # <<>> /\ LastCall.fn = "fix_version_file" /\ LastCall.result = Ok) =>
        temp_file = DropIndices(LastCall.before, MalformedCommas(LastCall.before), 1)

C7_Witness ==
    /\ Len(applied) = 2
    /\ applied[1].fn = "add_version_info" /\ applied[1].result = Ok
    /\ applied[2].fn = "fix_version_file" /\ applied[2].result = Ok
    /\ contains(applied[1].before, MalformedInitMemory)
    /\ contains(temp_file, <<object_version_line, expected_runtime_version_line>>)

\* C8: from the completion of the patch stage of a module to the end of
\* that module's pipeline, the versioned IR holds no section ",_memory" and
\* no section ",_init_memory".
C8_NoMalformedAfterPatch ==
    Completed("fix_version_file") =>
        /\ ~contains(fs[versioned_file(path)], MalformedMemory)
        /\ ~contains(fs[versioned_file(path)], MalformedInitMemory)

C8_Witness ==
    /\ Completed("fix_version_file")
    /\ pc = "loop"
    /\ contains(fs[source_file(path)], MalformedMemory)
    /\ contains(fs[source_file(path)], MalformedInitMemory)

\* C9: no stage of build_ebpf writes the raw IR file, whether the stage
\* returns Ok or an error, and the versioned IR is another file:
\* <stem>.versioned.ll for the raw IR <stem>.ll.
C9_RawIrNeverWritten ==
    /\ [](pc \in Stages =>
             /\ path[Len(path)] = "ll"
             /\ versioned_file(path) =
                   SubSeq(path, 1, Len(path) - 1) \o <<"versioned", "ll">>
             /\ versioned_file(path) # source_file(path))
    /\ [][(pc \in Stages) =>
             /\ source_file(path) \in DOMAIN fs'
             /\ fs'[source_file(path)] = fs[source_file(path)]]_vars

C9_Witness ==
    /\ pc = "loop"
    /\ Len(trace) = 5
    /\ AllOk(trace)
    /\ fs[source_file(path)] = IrMacos
    /\ fs[versioned_file(path)] # IrMacos

OnPath(name, e) == \E i \in 1..Len(e.PATH) : name \in e.PATH[i]

VersionPasses(run) ==
    /\ run.spawned
    /\ \E m \in {"17", "18", "19"} : contains(run.stdout, <<"version ", m, ".">>)

\* C10: the tool locator returns <override>/<name> when LLVM_BIN_PATH is set
\* and that file exists; otherwise the first of <name>-17, <name>-18,
\* <name>-19 found on PATH, and then the bare name is neither searched nor
\* run; otherwise the bare name when it is on PATH and its --version output
\* names version 17, 18 or 19; otherwise an error.
C10_FirstMatchWins ==
    resolved.tool # "" =>
        LET tool == resolved.tool
            r    == resolved.value
            suffixed == {v \in 17..19 : OnPath(tool \o "-" \o ToString(v), env)}
        IN  IF env.LLVM_BIN_PATH /\ tool \in env.override_files
            THEN r.result = Ok /\ r.cmd = "$LLVM_BIN_PATH/" \o tool
            ELSE IF suffixed # {}
            THEN /\ r.result = Ok
                 /\ \E v \in suffixed :
                       /\ \A w \in suffixed : v <= w
                       /\ r.cmd = tool \o "-" \o ToString(v)
                 /\ \A i \in 1..Len(r.probes) : r.probes[i] # tool
                 /\ ~r.queried
            ELSE IF OnPath(tool, env) /\ VersionPasses(env.version[tool])
            THEN r.result = Ok /\ r.cmd = tool
            ELSE IsErr(r.result)

C10_Witness ==
    /\ resolved.tool = "llc"
    /\ resolved.value.cmd = "llc-18"
    /\ OnPath("llc-19", env)
    /\ OnPath("llc", env)
    /\ ~VersionPasses(env.version["llc"])
    /\ env.LLVM_BIN_PATH
    /\ Len(env.PATH) = 2

\* resolution of the tool comes down to the bare name: no file of that name
\* below LLVM_BIN_PATH, none of the suffixed names on PATH
BareReached(tool, e) ==
    /\ ~(e.LLVM_BIN_PATH /\ tool \in e.override_files)
    /\ \A v \in 17..19 : ~OnPath(tool \o "-" \o ToString(v), e)

ResolutionError(tool) ==
    IF tool = "llc" THEN Err("LlcRunError", "") ELSE Err("LlvmStripRunError", "")

HasSymbols(obj) == \E i \in 1..Len(obj) : obj[i] = SYMTAB

ToolRuns(tool) ==
    {i \in 1..Len(tool_calls) : tool_calls[i].call = "run" /\ tool_calls[i].tool = tool}

\* C12: with --no-strip, cargo is run without RUSTFLAGS, llvm-strip is
\* neither resolved nor run, and the object file of a finished module keeps
\* its symbols; without it, cargo is run with RUSTFLAGS="-C link-arg=-s",
\* and when the pipeline of a module is through, or build has returned Ok,
\* every object file llc has written has been handed to llvm-strip and
\* holds no symbols.
C12_NoStripSuppressesStripAndHint ==
    LET flag     == args_contains(args, NO_STRIP)
        finished == trace # <<>> /\ AllOk(trace) /\ (pc = "loop" \/ pc = "done")
    IN  /\ \A i \in 1..Len(cargo_calls) :
              cargo_calls[i].command.RUSTFLAGS = (IF flag THEN "" ELSE "-C link-arg=-s")
        /\ flag =>
              /\ \A i \in 1..Len(tool_calls) : tool_calls[i].tool # "llvm-strip"
              /\ \A i \in 1..Len(trace) : trace[i].stage # "strip_object_file"
              /\ finished => HasSymbols(fs[target_file(path)])
        /\ (~flag /\ (finished \/ (pc = "done" /\ result = Ok))) =>
              /\ \A i \in ToolRuns("llc") :
                    /\ i + 2 \in ToolRuns("llvm-strip")
                    /\ tool_calls[i + 2].file = tool_calls[i].file
                    /\ tool_calls[i + 2].spawned
              /\ \A i \in 1..Len(attempted) :
                    ~HasSymbols(fs[target_file(ll_file_path(attempted[i]))])

C12_Witness ==
    /\ pc = "done"
    /\ result = Ok
    /\ args_contains(args, NO_STRIP)
    /\ Len(attempted) = 2
    /\ Len(cargo_calls) = 2
    /\ cargo_calls[1].spawned
    /\ ToolRuns("llc") # {}
    /\ HasSymbols(fs[target_file(path)])

\* the files build_ebpf() reads and writes for a module
ArtifactPaths(wasm_file_path) ==
    LET p == ll_file_path(wasm_file_path)
    IN  {source_file(p), versioned_file(p), target_file(p)}

\* C13: the modules a build has started are given pairwise disjoint sets
\* of paths (raw IR, versioned IR, object file) in <target>/l1x/release.
C13_DistinctArtifactPaths ==
    \A i, j \in 1..Len(attempted) :
        i # j => ArtifactPaths(attempted[i]) \cap ArtifactPaths(attempted[j]) = {}

Resolutions(tool) ==
    {i \in 1..Len(tool_calls) :
        tool_calls[i].call = "resolve" /\ tool_calls[i].tool = tool}

StageOf(tool) == IF tool = "llc" THEN "compile_to_object" ELSE "strip_object_file"

\* C14 as claimed: in one call of build, each tool is resolved at most once.
C14_ResolvedOncePerBuild ==
    \A tool \in Tools : Cardinality(Resolutions(tool)) <= 1

\* C14: each tool is resolved once in every call of its stage, that is once
\* for every module that reaches the stage: within a call of build, a step
\* of compile_to_object adds one resolution of llc, a step of
\* strip_object_file one of llvm-strip, no other step adds any, and a
\* command that is run is the one the resolution just before it returned.
C14_ResolvedOncePerStageCall ==
    /\ [][pc' # "build" =>
             \A tool \in Tools :
                Cardinality(Resolutions(tool)') =
                   Cardinality(Resolutions(tool)) + (IF pc = StageOf(tool) THEN 1 ELSE 0)]_vars
    /\ [](\A i \in 1..Len(tool_calls) :
             tool_calls[i].call = "run" =>
                /\ i > 1
                /\ tool_calls[i - 1].call = "resolve"
                /\ tool_calls[i - 1].tool = tool_calls[i].tool
                /\ tool_calls[i - 1].cmd = tool_calls[i].cmd
                /\ tool_calls[i - 1].file = tool_calls[i].file)

C14_Witness ==
    /\ Cardinality(Resolutions("llc")) = 2
    /\ Cardinality(Resolutions("llvm-strip")) = 2
    /\ tool_calls[1].file # tool_calls[5].file
    /\ tool_calls[1].cmd = tool_calls[5].cmd
    /\ pc = "done"
    /\ result = Ok

Supported == {"17", "18", "19"}

\* the major version a --version output names: what follows "version "
MajorOf(stdout) ==
    IF \E i \in 1..(Len(stdout) - 1) : stdout[i] = "version "
    THEN stdout[(CHOOSE i \in 1..(Len(stdout) - 1) : stdout[i] = "version ") + 1]
    ELSE ""

\* the LLVM major version of the executable a returned command names: a file
\* below LLVM_BIN_PATH, a suffixed name (the version of its suffix), or the
\* bare name
ActualMajor(tool, cmd, e) ==
    IF cmd = "$LLVM_BIN_PATH/" \o tool THEN e.override_major
    ELSE IF \E m \in Supported : cmd = tool \o "-" \o m
    THEN CHOOSE m \in Supported : cmd = tool \o "-" \o m
    ELSE MajorOf(e.version[tool].stdout)

\* C15 as claimed: whatever strategy returned it, a returned command names
\* an executable of LLVM major version 17, 18 or 19.
C15_EveryReferenceVersionVerified ==
    (resolved.tool # "" /\ resolved.value.result = Ok) =>
        ActualMajor(resolved.tool, resolved.value.cmd, env) \in Supported

\* C15: a returned command is version-verified only when it is the bare
\* name: then --version was run and named version 17, 18 or 19.  A file
\* below LLVM_BIN_PATH is returned because it exists, and a suffixed name
\* because it is on PATH: for neither is --version run.
C15_OnlyBareNameVerified ==
    (resolved.tool # "" /\ resolved.value.result = Ok) =>
        LET tool == resolved.tool
            r    == resolved.value
        IN  IF r.cmd = tool
            THEN /\ r.queried
                 /\ env.version[tool].spawned
                 /\ MajorOf(env.version[tool].stdout) \in Supported
            ELSE /\ ~r.queried
                 /\ \/ /\ r.cmd = "$LLVM_BIN_PATH/" \o tool
                       /\ env.LLVM_BIN_PATH /\ tool \in env.override_files
                    \/ /\ \E m \in Supported : r.cmd = tool \o "-" \o m
                       /\ OnPath(r.cmd, env)

C15_Witness ==
    /\ resolved.tool = "llc"
    /\ resolved.value.result = Ok
    /\ resolved.value.cmd = "$LLVM_BIN_PATH/llc"
    /\ env.override_major = "16"
    /\ OnPath("llc-17", env)

\* a stage of build_ebpf() has failed and build() has returned its error
StageFailed ==
    /\ pc = "done"
    /\ trace # <<>>
    /\ ~trace[Len(trace)].ok

\* C16: two stage failures that differ in the stage or in the module make
\* build return different error values: the error of this call differs
\* from the error an earlier call returned for another stage or module.
C16_ErrorIdentifiesStageAndModule ==
    (StageFailed /\ previous # NoFailure /\ previous # Untracked) =>
        ((\/ previous.stage # trace[Len(trace)].stage
          \/ previous.module # attempted[Len(attempted)]) =>
            previous.error # result)

KnownTemplate(s) == s \in {"local_default", "default", "ft", "nft"}

\* C17: create with a valid template and a destination that exists returns
\* DirectoryAlreadyExists at once: the destination and what is below it
\* stay as they were, no request is sent and no archive is opened or
\* unpacked.
C17_ExistingDestinationUntouched ==
    [][(pc = "create" /\ KnownTemplate(from_template) /\ destination.exists) =>
          /\ pc' = "done"
          /\ result' = Err("DirectoryAlreadyExists", ProjectName)
          /\ destination' = destination
          /\ fetched' = fetched
          /\ archive' = archive]_vars

C17_Witness ==
    /\ pc = "done"
    /\ runs = 1
    /\ result = Err("DirectoryAlreadyExists", ProjectName)
    /\ from_template = "ft"
    /\ destination.files # {}
    /\ fetched = 0

\* C18: create with a template name other than local_default, default, ft
\* and nft returns UnknownTemplate at once, whether the destination exists
\* or not: nothing is created or written and no request is sent.
C18_UnknownTemplateFirst ==
    [][(pc = "create" /\ ~KnownTemplate(from_template)) =>
          /\ pc' = "done"
          /\ result' = Err("UnknownTemplate", from_template)
          /\ destination' = destination
          /\ fetched' = fetched
          /\ archive' = archive]_vars

C18_Witness ==
    /\ pc = "done"
    /\ runs = 1
    /\ result = Err("UnknownTemplate", "bogus")
    /\ destination.exists
    /\ destination.files # {}
    /\ fetched = 0

\* the argument is one of the five flags, alone or with =value
UsesFixedFlag(arg) ==
    \E j \in 1..Len(Excluded) :
        \/ arg = Excluded[j]
        \/ /\ Len(arg) = 2
           /\ arg[1] = Excluded[j][1]
           /\ arg[2] \in {"=wasm32-wasi", "=dev"}

Rejected == pc = "done" /\ result.kind = "anyhow"

\* C19: once main has looked at the arguments of `cargo l1x build` (no help
\* asked for, cargo metadata read): a list with one of --target,
\* --message-format, --version, --manifest-path, --profile is rejected and
\* cargo build is never run; a list with none of them is not rejected:
\* build() is called with it.
C19_RejectsExactlyFixedFlags ==
    LET fixed == \E i \in 1..Len(args) : UsesFixedFlag(args[i])
    IN  /\ fixed => cargo_calls = <<>> /\ fs = NoFiles /\ ~bin_dir
        /\ (pc # "main" /\ result.kind # "panic"
              /\ ~args_contains(args, <<"--help">>) /\ ~args_contains(args, <<"-h">>)) =>
                 (Rejected <=> fixed)

\* the two causes of a failed resolution
NotFoundAnywhere(tool, e) == BareReached(tool, e) /\ ~OnPath(tool, e)

FoundUnsupported(tool, e) ==
    BareReached(tool, e) /\ OnPath(tool, e) /\ ~VersionPasses(e.version[tool])

ResolutionOn(tool, e) ==
    IF tool = "llc" THEN get_llc_command(e) ELSE get_llvm_command(e)

\* C20: the error returned when the tool is found nowhere differs from the
\* error returned on any host where the bare name is on PATH but its
\* --version names an unsupported version or prints nothing.
C20_FailureCausesDiffer ==
    (resolved.tool # "" /\ NotFoundAnywhere(resolved.tool, env)) =>
        \A h \in {HostOldLlc, HostOldStrip, HostSilentLlc} :
            FoundUnsupported(resolved.tool, h) =>
                ResolutionOn(resolved.tool, h).result # resolved.value.result

\* <name>.<ext> for the module file <name>.wasm
Named(wasm_file_path, ext) ==
    SubSeq(wasm_file_path.name, 1, Len(wasm_file_path.name) - 1) \o ext

\* C21: when build returns Ok, <name>.ll, <name>.versioned.ll and <name>.o
\* exist in <target>/l1x/release for every module <name>.wasm the second
\* cargo run has reported, and that directory was created, by the one
\* create_dir_all of the call, before the first module was started.
C21_ArtifactsOfEveryModule ==
    /\ (pc = "done" /\ result = Ok) =>
          /\ ~WasmLeft
          /\ \A i \in 1..Len(attempted) :
                /\ Named(attempted[i], <<"ll">>) \in DOMAIN fs
                /\ Named(attempted[i], <<"versioned", "ll">>) \in DOMAIN fs
                /\ Named(attempted[i], <<"o">>) \in DOMAIN fs
    /\ (attempted # <<>> \/ pc \in {"cargo_json", "loop", "translate"} \cup Stages) =>
          bin_dir
    /\ (runs = 1 /\ pc \in {"build", "create_dir_all"}) => ~bin_dir

C21_Witness ==
    /\ pc = "done"
    /\ result = Ok
    /\ runs = 1
    /\ Len(attempted) = 2
    /\ attempted[1].name # attempted[2].name
    /\ Cardinality(DOMAIN fs) = 6

RECURSIVE Without(_, _)
Without(a, x) ==
    IF a = <<>> THEN <<>>
    ELSE (IF Head(a) = x THEN <<>> ELSE <<Head(a)>>) \o Without(Tail(a), x)

Occurrences(a, x) == Cardinality({i \in 1..Len(a) : a[i] = x})

\* C23: cargo is run with: build, --target, wasm32-unknown-unknown, then
\* the arguments of the caller in their order without any --no-strip, then
\* --release when the caller gave none; the second run has --message-format
\* json after that.  --no-strip is never passed on and the pipeline adds
\* --release only when there is none.
C23_CargoArguments ==
    \A i \in 1..Len(cargo_calls) :
        LET passed == cargo_calls[i].command.args
        IN  /\ passed =
                  <<<<"build">>, <<"--target">>, <<"wasm32-unknown-unknown">>>>
                     \o Without(args, NO_STRIP)
                     \o (IF Occurrences(args, RELEASE) = 0 THEN <<RELEASE>> ELSE <<>>)
                     \o (IF i = 2 THEN <<<<"--message-format">>, <<"json">>>> ELSE <<>>)
            /\ Occurrences(passed, NO_STRIP) = 0
            /\ Occurrences(passed, RELEASE) =
                  (IF Occurrences(args, RELEASE) = 0 THEN 1 ELSE Occurrences(args, RELEASE))

C23_Witness ==
    /\ Len(cargo_calls) = 1
    /\ args = <<RELEASE, NO_STRIP>>
    /\ cargo_calls[1].command.args =
          <<<<"build">>, <<"--target">>, <<"wasm32-unknown-unknown">>, RELEASE>>

\* llvm-strip is missing from the host, or the one found is of a version
\* that is not accepted
StripUnusable(e) ==
    NotFoundAnywhere("llvm-strip", e) \/ FoundUnsupported("llvm-strip", e)

LlcUsable(e) ==
    ~(NotFoundAnywhere("llc", e) \/ FoundUnsupported("llc", e))

StripErrors ==
    {Err("LlvmStripRunError", ""), Err("LlvmStripRunError", "spawn"),
     Err("LlvmStripError", "")}

Compiled == \E i \in 1..Len(trace) : trace[i] = [stage |-> "compile_to_object", ok |-> TRUE]

\* C24: with --no-strip, llvm-strip is neither resolved nor run and no error
\* of the strip stage is returned, so that a host without a usable llvm-strip
\* but with a usable llc does not fail for the tool.  Without --no-strip, on
\* such a host, build never returns Ok for a module: the module whose object
\* file llc has written fails with LlvmStripRunError at the resolution of
\* llvm-strip, that error is returned only after llc has written the object
\* file, and the object file is on disk, with its symbols, when build returns.
C24_NoStripNeedsNoStripTool ==
    LET flag == args_contains(args, NO_STRIP)
        host == StripUnusable(env) /\ LlcUsable(env)
    IN  /\ (flag /\ pc # "build") =>
              /\ \A i \in 1..Len(tool_calls) : tool_calls[i].tool # "llvm-strip"
              /\ \A i \in 1..Len(trace) : trace[i].stage # "strip_object_file"
              /\ pc # "strip_object_file"
              /\ result \notin StripErrors
              /\ host => \A i \in 1..Len(tool_calls) :
                            tool_calls[i].call = "resolve" => tool_calls[i].cmd # ""
        /\ (~flag /\ host /\ pc = "done") =>
              /\ result = Ok => attempted = <<>>
              /\ Compiled => result = Err("LlvmStripRunError", "")
              /\ result = Err("LlvmStripRunError", "") =>
                    /\ Compiled
                    /\ trace[Len(trace) - 1] = [stage |-> "compile_to_object", ok |-> TRUE]
                    /\ trace[Len(trace)] = [stage |-> "strip_object_file", ok |-> FALSE]
                    /\ ToolRuns("llvm-strip") = {}
                    /\ target_file(path) \in DOMAIN fs
                    /\ HasSymbols(fs[target_file(path)])

C24_Witness ==
    /\ pc = "done"
    /\ result = Ok
    /\ runs = 1
    /\ StripUnusable(env) /\ LlcUsable(env)
    /\ args_contains(args, NO_STRIP)
    /\ Len(attempted) = 1
    /\ HasSymbols(fs[Named(attempted[1], <<"o">>)])

\* the same host without --no-strip
C24_WitnessWithoutFlag ==
    /\ pc = "done"
    /\ result = Err("LlvmStripRunError", "")
    /\ runs = 1
    /\ StripUnusable(env) /\ LlcUsable(env)
    /\ ~args_contains(args, NO_STRIP)
    /\ HasSymbols(fs[target_file(path)])

EmptyDirectory == [exists |-> TRUE, dirs |-> {}, files |-> {}]

\* create() has returned the error of get_zip_template(): no archive was
\* handed to unzip()
FetchFailed ==
    /\ pc = "done"
    /\ result \in {Err("ConnectionError", ""), Err("ZipError", "")}
    /\ archive = <<>>

\* C25: when create() has passed its two tests and get_zip_template() fails
\* with ConnectionError or ZipError, the destination directory has been
\* created, is empty, and is left so; the next call of create() with that
\* name starts with the directory in place, and a call with a known template
\* that finds the directory returns DirectoryAlreadyExists without fetching
\* anything and without touching the directory.
C25_FailedFetchLeavesDirectory ==
    /\ [](FetchFailed => destination = EmptyDirectory /\ fetched >= 1)
    /\ [][(pc = "get_zip_template" /\ IsErr(result')) =>
             /\ destination' = EmptyDirectory
             /\ pc' = "done"
             /\ archive' = <<>>]_vars
    /\ [][(FetchFailed /\ pc' # pc) =>
             /\ pc' = "create"
             /\ destination' = EmptyDirectory
             /\ fetched' = fetched]_vars
    /\ [][(pc = "create" /\ destination.exists /\ KnownTemplate(from_template)) =>
             /\ pc' = "done"
             /\ result' = Err("DirectoryAlreadyExists", ProjectName)
             /\ fetched' = fetched
             /\ destination' = destination]_vars

C25_Witness ==
    /\ pc = "done"
    /\ runs = 2
    /\ result = Err("DirectoryAlreadyExists", ProjectName)
    /\ from_template = "ft"
    /\ fetched = 1
    /\ destination = EmptyDirectory

\* a line of cargo's JSON output that tells of a produced file whose first
\* file name ends in .wasm
IsWasmArtifact(m) ==
    /\ m.reason = "compiler-artifact"
    /\ Len(m.filenames) >= 1
    /\ Len(m.filenames[1].name) >= 2
    /\ m.filenames[1].name[Len(m.filenames[1].name)] = "wasm"

JsonFlags == <<<<"--message-format">>, <<"json">>>>

\* C26: a call of build runs cargo at most twice: first the build, which
\* must have been started and have succeeded for anything else to happen,
\* then the same command with --message-format json added.  When that second
\* run could be started, build goes on to read its output whatever it is (no
\* exit status is looked at); the modules that are processed are the .wasm
\* artifacts of that output, in its order: a line that is not the artifact
\* message of a .wasm file starts nothing, and when the output has no such
\* line build returns Ok with no module processed and no file written.
C26_TwoCargoRuns ==
    /\ [](/\ Len(cargo_calls) <= 2
          /\ (pc \notin {"build", "done"}) => cargo_calls[1].spawned
          /\ (pc \in {"build", "create_dir_all", "cargo_json"}) => Len(cargo_calls) <= 1
          /\ (pc \in Stages \cup {"loop", "translate"} \/ attempted # <<>>) =>
                 (Len(cargo_calls) = 2 /\ cargo_calls[2].spawned)
          /\ Len(cargo_calls) = 2 =>
                 /\ cargo_calls[1].spawned
                 /\ cargo_calls[2].command.RUSTFLAGS = cargo_calls[1].command.RUSTFLAGS
                 /\ cargo_calls[2].command.args = cargo_calls[1].command.args \o JsonFlags
          /\ Len(cargo_calls) >= 1 =>
                 \A i \in 1..Len(cargo_calls[1].command.args) :
                     cargo_calls[1].command.args[i] # JsonFlags[1]
          /\ \A i \in 1..Len(attempted) :
                 IsWasmArtifact([reason |-> "compiler-artifact",
                                 filenames |-> <<attempted[i]>>])
          /\ (pc = "done" /\ result = Ok) =>
                 (Len(cargo_calls) = 2 /\ cargo_calls[2].spawned /\ lines = <<>>)
          /\ (pc = "done" /\ result = Ok /\ attempted = <<>>) =>
                 (trace = <<>> /\ tool_calls = <<>> /\ (runs = 1 => fs = NoFiles)))
    /\ [][(pc = "cargo_json" /\ cargo_calls'[Len(cargo_calls')].spawned) =>
             (pc' = "loop" /\ result' = result /\ attempted' = <<>>)]_vars
    /\ [][(pc = "loop" /\ lines # <<>>) =>
             IF IsWasmArtifact(Head(lines))
             THEN /\ pc' = "translate"
                  /\ attempted' = Append(attempted, Head(lines).filenames[1])
             ELSE /\ pc' = "loop"
                  /\ attempted' = attempted
                  /\ tool_calls' = tool_calls
                  /\ fs' = fs]_vars
    /\ [][(pc = "loop" /\ lines = <<>>) => (pc' = "done" /\ result' = Ok)]_vars
    /\ [][attempted' # attempted =>
             (attempted' = <<>> \/ (pc = "loop" /\ lines # <<>> /\ IsWasmArtifact(Head(lines))))]_vars

C26_Witness ==
    /\ pc = "done"
    /\ result = Ok
    /\ runs = 1
    /\ Len(cargo_calls) = 2
    /\ cargo_calls[2].spawned
    /\ attempted = <<>>
    /\ bin_dir
    /\ fs = NoFiles

\* the first directory entry of an archive: <<>> when it has none
RECURSIVE FirstDirectory(_)
FirstDirectory(a) ==
    IF a = <<>> THEN <<>>
    ELSE IF Head(a).is_dir THEN <<Head(a).name>>
    ELSE FirstDirectory(Tail(a))

\* a path without its steps to the root, to the same place and upwards
PlainPath(p) == Without(Without(Without(p, ".."), "."), "")

\* a path without the leading directory top, when it is below it
Below(p, top) ==
    IF top # <<>> /\ Len(p) >= Len(top[1]) /\ (\A k \in 1..Len(top[1]) : p[k] = top[1][k])
    THEN SubSeq(p, Len(top[1]) + 1, Len(p))
    ELSE p

\* where a file entry of the archive is to be found below the destination
Unpacked(name, top) ==
    LET p == Below(PlainPath(name), top)
    IN  IF p # <<>> /\ p[Len(p)] = "Cargo.toml.template"
        THEN SubSeq(p, 1, Len(p) - 1) \o <<"Cargo.toml">>
        ELSE p

Created == pc = "done" /\ result = Ok /\ archive # <<>>

\* C27: when create has returned Ok, the files below the destination are
\* the file entries of the archive, each written in full at its path in the
\* archive without the first directory entry of the archive in front, and
\* Cargo.toml.template under the name Cargo.toml; every file and directory
\* made is below the destination (no path leads upwards), and the first
\* directory entry is not a directory of the destination.
C27_UnpackedBelowDestination ==
    Created =>
        LET top == FirstDirectory(archive)
        IN  /\ destination.exists
            /\ destination.files =
                  {[path |-> Unpacked(archive[i].name, top), written |-> TRUE] :
                      i \in {j \in 1..Len(archive) : ~archive[j].is_dir}}
            /\ \A f \in destination.files :
                  /\ f.path # <<>>
                  /\ \A k \in 1..Len(f.path) : f.path[k] \notin {"..", ".", ""}
                  /\ f.path[Len(f.path)] # "Cargo.toml.template"
                  /\ \A n \in 1..(Len(f.path) - 1) : SubSeq(f.path, 1, n) \in destination.dirs
            /\ \A d \in destination.dirs :
                  /\ d # <<>>
                  /\ \A k \in 1..Len(d) : d[k] \notin {"..", ".", ""}
            /\ top # <<>> => top[1] \notin destination.dirs

C27_WitnessClimbing ==
    /\ Created
    /\ archive = ClimbingArchive
    /\ destination.files =
          {[path |-> <<"evil">>, written |-> TRUE],
           [path |-> <<"Cargo.toml">>, written |-> TRUE]}

\* the archive packed into the program, unpacked
C27_Witness ==
    /\ Created
    /\ archive = LocalArchive
    /\ destination.dirs = {<<"src">>}
    /\ destination.files =
          {[path |-> <<"Cargo.toml">>, written |-> TRUE],
           [path |-> <<"src", "lib.rs">>, written |-> TRUE]}

=============================================================================
